---- MODULE Spec2Model ----
(***************************************************************************)
(* A model of pkg/controller/networkpolicy/crd_utils.go: the get-or-create *)
(* of AppliedToGroups and AddressGroups, the peer resolvers, the tier      *)
(* priority resolver and the internal group sync handler.                  *)
(*                                                                         *)
(* Strings that the code builds or takes apart are sequences of string     *)
(* tokens (the empty string is <<>>); everything else is a record with the *)
(* field names of the Go type.                                             *)
(***************************************************************************)
EXTENDS Integers, Sequences, FiniteSets, TLC

VARIABLES
    appliedToGroupStore,  \* n.appliedToGroupStore: the AppliedToGroups, by Name
    addressGroupStore,    \* n.addressGroupStore: the AddressGroups, by Name
    appliedToGroupQueue,  \* keys handed to n.enqueueAppliedToGroup, waiting
    call,                 \* one record per invocation of a create* function
    rulePeers,            \* the peer list of the rule being converted
    matchAllPeer,         \* the package-level match-all NetworkPolicyPeer
    peerOut,              \* the last peer conversion: its arguments and result
    tierStore,            \* the Tiers n.tierLister serves: name -> priority
    tierOut,              \* the last getTierPriority call and its result
    internalGroupStore,   \* n.internalGroupStore: the internal Groups, by key
    groupingGroups,       \* the groups n.groupingInterface tracks
    syncOut,              \* the last syncInternalGroup call: what it called
    npPorts,              \* the ports of the rule being converted
    npProtocols,          \* the protocols of the rule being converted
    svcOut,               \* the last toAntreaServicesForCRD call's result
    oldStatus,            \* the status a policy has
    newStatus,            \* the status computed for it
    statusOut             \* the last NetworkPolicyStatusEqual call's result

groupVars == <<appliedToGroupStore, appliedToGroupQueue, call>>

peerVars == <<rulePeers, matchAllPeer, peerOut>>

tierVars == <<tierStore, tierOut>>

syncVars == <<internalGroupStore, groupingGroups, syncOut>>

svcVars == <<npPorts, npProtocols, svcOut>>

statusVars == <<oldStatus, newStatus, statusOut>>

vars == <<groupVars, addressGroupStore, peerVars, tierVars, syncVars, svcVars, statusVars>>

(***************************************************************************)
(* Bounds.                                                                  *)
(***************************************************************************)
NumCalls == 3

Calls == 1..NumCalls

EmptyString == <<>>

Nil == [nil |-> TRUE]

(***************************************************************************)
(* Keys.                                                                    *)
(***************************************************************************)

\* k8s.NamespacedName: "<namespace>/<name>", or "<name>" without a namespace.
NamespacedName(namespace, name) ==
    IF namespace = "" THEN <<name>> ELSE <<namespace, "/", name>>

\* getNormalizedUID: a UUID derived from the name by hashing; the model keeps
\* the hashed name behind a tag, which is as injective as the hash is taken
\* to be.
getNormalizedUID(name) == <<"uid">> \o name

\* store.GroupKeyFunc: (key, err) of an internal Group.
GroupKeyFunc(intGrp) ==
    IF intGrp.Malformed
    THEN [key |-> EmptyString, err |-> TRUE]
    ELSE [key |-> NamespacedName(intGrp.SourceReference.Namespace,
                                 intGrp.SourceReference.Name),
          err |-> FALSE]

(***************************************************************************)
(* Inputs of the create* functions.                                         *)
(***************************************************************************)
Group(uid, namespace, name, malformed) ==
    [UID |-> uid,
     SourceReference |-> [Namespace |-> namespace, Name |-> name],
     Malformed |-> malformed]

\* Two internal Groups of one name (one deleted and created again under a new
\* UID), a namespaced one, and one no key can be derived from.
IntGroups ==
    {Group("u1", "", "cg", FALSE), Group("u2", "", "cg", FALSE),
     Group("u3", "ns", "g", FALSE), Group("u4", "", "bad", TRUE)}

\* v1alpha1.NamespacedName of a Service.
Services == {[Namespace |-> "ns", Name |-> "svc"]}

FnAppliedToInternal == "createAppliedToGroupForInternalGroup"
FnAppliedToService == "createAppliedToGroupForService"
FnAddressInternal == "createAddressGroupForInternalGroup"

CreateFns == {FnAppliedToInternal, FnAppliedToService, FnAddressInternal}

ArgsOf(fn) == IF fn = FnAppliedToService THEN Services ELSE IntGroups

\* The store a create* function reads and writes.
StoreOf(fn) == IF fn = FnAddressInternal THEN "addressGroupStore" ELSE "appliedToGroupStore"

(***************************************************************************)
(* The group stores: a set of objects indexed by Name.                      *)
(***************************************************************************)

\* store.Get(key): the found flag.
StoreHas(store, key) == \E o \in store : o.Name = key

\* store.Create(obj): adds the object; an object of the same key is kept and
\* the call fails (its error is dropped by every caller in this file).
StoreCreate(store, obj) == IF StoreHas(store, obj.Name) THEN store ELSE store \cup {obj}

(***************************************************************************)
(* The create* functions, one action per store access, so that calls of     *)
(* different goroutines interleave between the Get and the Create.          *)
(***************************************************************************)

\* The key of the call, with the error of its derivation dropped.
KeyOfErrDropped(fn, arg) ==
    IF fn = FnAppliedToService
    THEN [key |-> getNormalizedUID(NamespacedName(arg.Namespace, arg.Name)), err |-> FALSE]
    ELSE [key |-> GroupKeyFunc(arg).key, err |-> FALSE]

\* The key of the call and whether its derivation failed.
KeyOf(fn, arg) ==
    IF fn = FnAppliedToService
    THEN [key |-> getNormalizedUID(NamespacedName(arg.Namespace, arg.Name)), err |-> FALSE]
    ELSE GroupKeyFunc(arg)

\* The object the not-found branch builds.
NewGroupObject(fn, arg, key) ==
    IF fn = FnAppliedToService
    THEN [UID |-> key, Name |-> key,
          Service |-> [Namespace |-> arg.Namespace, Name |-> arg.Name]]
    ELSE [UID |-> <<arg.UID>>, Name |-> key]

\* One store or queue operation of a call, as an entry of its trace.
Op(op, key) == [op |-> op, key |-> key]

\* "_, found, _ := store.Get(key); if found { return key }"
FoundNever(store, key) == FALSE

Found(store, key) == StoreHas(store, key)

\* Whether the function enqueues the key after its Create.
EnqueuesNothing(fn) == FALSE

EnqueuesAfterCreate(fn) == fn \in {FnAppliedToInternal, FnAppliedToService}

IdleCall == [pc |-> "idle", fn |-> "", arg |-> Nil, key |-> EmptyString,
             ret |-> EmptyString, trace |-> <<>>]

InFlight(c) == call[c].pc \in {"get", "create", "enqueue"}

\* Entry: the key derivation and its early return.
Begin(c, fn, arg) ==
    /\ call[c].pc = "idle"
    /\ \A d \in Calls : d < c => call[d].pc # "idle"
    /\ LET k == KeyOf(fn, arg) IN
       call' = [call EXCEPT ![c] =
                  [pc |-> IF k.err THEN "done" ELSE "get",
                   fn |-> fn, arg |-> arg,
                   key |-> k.key, ret |-> EmptyString, trace |-> <<>>]]
    /\ UNCHANGED <<appliedToGroupStore, addressGroupStore, appliedToGroupQueue>>
    /\ UNCHANGED <<peerVars, tierVars, syncVars>>
    /\ UNCHANGED <<svcVars, statusVars>>

\* Entry when the calls do not overlap.
BeginAlone(c, fn, arg) ==
    /\ \A d \in Calls : ~InFlight(d)
    /\ Begin(c, fn, arg)

TheStore(fn) == IF StoreOf(fn) = "addressGroupStore" THEN addressGroupStore ELSE appliedToGroupStore

\* The existence check and the found branch.
Get(c) ==
    /\ call[c].pc = "get"
    /\ LET found == Found(TheStore(call[c].fn), call[c].key) IN
       call' = [call EXCEPT ![c].pc = IF found THEN "done" ELSE "create",
                            ![c].ret = IF found THEN call[c].key ELSE EmptyString,
                            ![c].trace = Append(@, Op("Get", call[c].key))]
    /\ UNCHANGED <<appliedToGroupStore, addressGroupStore, appliedToGroupQueue>>
    /\ UNCHANGED <<peerVars, tierVars, syncVars>>
    /\ UNCHANGED <<svcVars, statusVars>>

\* The not-found branch up to store.Create; createAddressGroupForInternalGroup
\* returns right after it.
Create(c) ==
    /\ call[c].pc = "create"
    /\ LET fn == call[c].fn
           obj == NewGroupObject(fn, call[c].arg, call[c].key)
           more == EnqueuesAfterCreate(fn)
       IN  /\ IF StoreOf(fn) = "addressGroupStore"
              THEN /\ addressGroupStore' = StoreCreate(addressGroupStore, obj)
                   /\ UNCHANGED appliedToGroupStore
              ELSE /\ appliedToGroupStore' = StoreCreate(appliedToGroupStore, obj)
                   /\ UNCHANGED addressGroupStore
           /\ call' = [call EXCEPT ![c].pc = IF more THEN "enqueue" ELSE "done",
                                   ![c].ret = IF more THEN EmptyString ELSE call[c].key,
                                   ![c].trace = Append(@, Op("Create", call[c].key))]
    /\ UNCHANGED <<appliedToGroupQueue, peerVars, tierVars, syncVars>>
    /\ UNCHANGED <<svcVars, statusVars>>

\* n.enqueueAppliedToGroup(key); return key
Enqueue(c) ==
    /\ call[c].pc = "enqueue"
    /\ appliedToGroupQueue' = appliedToGroupQueue \cup {call[c].key}
    /\ call' = [call EXCEPT ![c].pc = "done",
                            ![c].ret = call[c].key,
                            ![c].trace = Append(@, Op("Enqueue", call[c].key))]
    /\ UNCHANGED <<appliedToGroupStore, addressGroupStore, peerVars, tierVars, syncVars>>
    /\ UNCHANGED <<svcVars, statusVars>>

\* A worker takes a key off the AppliedToGroup queue.
DequeueAppliedToGroup ==
    /\ \E k \in appliedToGroupQueue : appliedToGroupQueue' = appliedToGroupQueue \ {k}
    /\ UNCHANGED <<appliedToGroupStore, addressGroupStore, call>>
    /\ UNCHANGED <<peerVars, tierVars, syncVars>>
    /\ UNCHANGED <<svcVars, statusVars>>

(***************************************************************************)
(* Peers.                                                                   *)
(***************************************************************************)
MaxPeers == 2

\* metav1.LabelSelector; its labels are a token sequence, <<>> selecting all.
Selector(labels) == [MatchLabels |-> labels]

\* Labels no selector can be built from.
BadLabels == <<"!">>

\* v1alpha1.NetworkPolicyPeer with no field set.
NoPeer ==
    [IPBlock |-> Nil, Group |-> "", FQDN |-> "", ServiceAccount |-> Nil,
     NodeSelector |-> Nil, PodSelector |-> Nil, NamespaceSelector |-> Nil,
     ExternalEntitySelector |-> Nil]

\* matchAllPodsPeerCrd: NamespaceSelector: &metav1.LabelSelector{}
matchAllPodsPeerCrd == [NoPeer EXCEPT !.NamespaceSelector = Selector(<<>>)]

\* A CIDR string, as the tokens around its "/".
GoodCIDR == <<"10.0.0.0", "/", "8">>
NoSlashCIDR == <<"10.0.0.0">>
BadPrefixCIDR == <<"10.0.0.0", "/", "x">>

\* The peers a rule is written from: one or two of each variant.
PeerValues ==
    {[NoPeer EXCEPT !.IPBlock = [CIDR |-> GoodCIDR]],
     [NoPeer EXCEPT !.IPBlock = [CIDR |-> NoSlashCIDR]],
     [NoPeer EXCEPT !.IPBlock = [CIDR |-> BadPrefixCIDR]],
     [NoPeer EXCEPT !.Group = "cg"],
     [NoPeer EXCEPT !.Group = "ipg"],
     [NoPeer EXCEPT !.FQDN = "*.example.com"],
     [NoPeer EXCEPT !.ServiceAccount = [Namespace |-> "ns", Name |-> "sa"]],
     [NoPeer EXCEPT !.NodeSelector = Selector(<<"role", "worker">>)],
     [NoPeer EXCEPT !.PodSelector = Selector(<<"app", "a">>)],
     [NoPeer EXCEPT !.PodSelector = Selector(BadLabels)]}

RECURSIVE SeqsUpTo(_, _)
\* The sequences over S of length at most n.
SeqsUpTo(S, n) ==
    IF n = 0 THEN {<<>>}
    ELSE LET shorter == SeqsUpTo(S, n - 1)
         IN  shorter \cup {Append(q, x) : q \in shorter, x \in S}

PeerLists == SeqsUpTo(PeerValues, MaxPeers)

DirectionIn == "In"
DirectionOut == "Out"
Directions == {DirectionIn, DirectionOut}

\* np.GetNamespace(): empty for a cluster-scoped policy.
PolicyNamespaces == {"", "ns"}

\* strconv.ParseInt of a prefix length.
ParsePrefix(tok) ==
    CASE tok = "0" -> [val |-> 0, err |-> FALSE]
      [] tok = "8" -> [val |-> 8, err |-> FALSE]
      [] OTHER -> [val |-> 0, err |-> TRUE]

ZeroIPNet == [IP |-> "", PrefixLength |-> 0]

\* cidrStrToIPNet: splits at "/", wants two parts and a numeric prefix.
cidrStrToIPNet(cidr) ==
    IF Len(cidr) # 3 \/ cidr[2] # "/"
    THEN [net |-> ZeroIPNet, err |-> TRUE]
    ELSE LET p == ParsePrefix(cidr[3])
         IN  IF p.err THEN [net |-> ZeroIPNet, err |-> TRUE]
             ELSE [net |-> [IP |-> cidr[1], PrefixLength |-> p.val], err |-> FALSE]

\* toAntreaIPBlockForCRD with the error of cidrStrToIPNet dropped.
toAntreaIPBlockForCRDUnchecked(ipBlock) ==
    [block |-> [CIDR |-> cidrStrToIPNet(ipBlock.CIDR).net, Except |-> <<>>],
     err |-> FALSE]

toAntreaIPBlockForCRD(ipBlock) ==
    LET ipNet == cidrStrToIPNet(ipBlock.CIDR)
    IN  IF ipNet.err THEN [block |-> Nil, err |-> TRUE]
        ELSE [block |-> [CIDR |-> ipNet.net, Except |-> <<>>], err |-> FALSE]

\* The initial value of matchAllPeer: the one IPBlock 0.0.0.0/0.
MatchAllPeerValue ==
    [AddressGroups |-> <<>>,
     IPBlocks |-> <<[CIDR |-> [IP |-> "0.0.0.0", PrefixLength |-> 0], Except |-> <<>>]>>,
     FQDNs |-> <<>>]

\* serviceAccountNameToPodSelector: the label the ServiceAccount's Pods carry.
serviceAccountNameToPodSelector(name) ==
    Selector(<<"internal.antrea.io/service-account", name>>)

SelectorPart(tag, sel) ==
    IF sel = Nil THEN <<>> ELSE <<tag>> \o sel.MatchLabels \o <<";">>

\* The normalized name of a selector combination; the namespace gives way to
\* a namespace selector.
NormalizedName(namespace, podSelector, nsSelector, eeSelector, nodeSelector) ==
    <<"namespace=", IF nsSelector = Nil THEN namespace ELSE "", ";">>
      \o SelectorPart("podSelector=", podSelector)
      \o SelectorPart("namespaceSelector=", nsSelector)
      \o SelectorPart("eeSelector=", eeSelector)
      \o SelectorPart("nodeSelector=", nodeSelector)

MalformedSelector(sel) == sel # Nil /\ sel.MatchLabels = BadLabels

\* n.createAddressGroup: the get-or-create of the AddressGroup of a selector
\* combination; the empty key when no key can be derived.
createAddressGroup(store, namespace, podSelector, nsSelector, eeSelector, nodeSelector) ==
    LET bad == \E sel \in {podSelector, nsSelector, eeSelector, nodeSelector} :
                   MalformedSelector(sel)
        key == getNormalizedUID(
                   NormalizedName(namespace, podSelector, nsSelector, eeSelector, nodeSelector))
    IN  IF bad THEN [key |-> EmptyString, store |-> store, ops |-> <<>>]
        ELSE IF StoreHas(store, key)
        THEN [key |-> key, store |-> store, ops |-> <<Op("Get", key)>>]
        ELSE [key |-> key,
              store |-> StoreCreate(store, [UID |-> key, Name |-> key]),
              ops |-> <<Op("Get", key), Op("Create", key), Op("Enqueue", key)>>]

\* n.processRefGroupOrClusterGroup: the key of the referenced group, empty
\* when it has none, and the IPBlocks the group holds.
processRefGroupOrClusterGroup(group, namespace) ==
    CASE group = "cg" ->
           [key |-> NamespacedName("", group), ipBlocks |-> <<>>]
      [] group = "ipg" ->
           [key |-> EmptyString,
            ipBlocks |-> <<[CIDR |-> [IP |-> "192.168.0.0", PrefixLength |-> 16],
                            Except |-> <<>>]>>]
      [] OTHER -> [key |-> EmptyString, ipBlocks |-> <<>>]

(***************************************************************************)
(* toAntreaPeerForCRD and toNamespacedPeerForCRD.                           *)
(***************************************************************************)

\* The locals of the loop, with the AddressGroup store and what the
\* normalizer did to it.
NoAcc(store) ==
    [addressGroups |-> <<>>, ipBlocks |-> <<>>, fqdns |-> <<>>,
     store |-> store, ops |-> <<>>]

\* "addressGroups = append(addressGroups, normalizedUID)" after a
\* createAddressGroup.
AppendGroup(acc, g) ==
    [acc EXCEPT !.addressGroups = Append(@, g.key),
                !.store = g.store,
                !.ops = @ \o g.ops]

\* One iteration, with the IPBlocks of a Group taken only when the Group has
\* a key.
PeerStepKeyedGroupOnly(acc, peer, npNamespace) ==
    IF peer.IPBlock # Nil
    THEN LET b == toAntreaIPBlockForCRD(peer.IPBlock)
         IN  IF b.err THEN acc
             ELSE [acc EXCEPT !.ipBlocks = Append(@, b.block)]
    ELSE IF peer.Group # ""
    THEN LET g == processRefGroupOrClusterGroup(peer.Group, npNamespace)
         IN  [acc EXCEPT !.addressGroups =
                            IF g.key # EmptyString THEN Append(@, g.key) ELSE @,
                         !.ipBlocks =
                            IF g.key # EmptyString THEN @ \o g.ipBlocks ELSE @]
    ELSE IF peer.FQDN # ""
    THEN [acc EXCEPT !.fqdns = Append(@, peer.FQDN)]
    ELSE IF peer.ServiceAccount # Nil
    THEN AppendGroup(acc,
             createAddressGroup(acc.store, peer.ServiceAccount.Namespace,
                 serviceAccountNameToPodSelector(peer.ServiceAccount.Name),
                 Nil, Nil, Nil))
    ELSE IF peer.NodeSelector # Nil
    THEN AppendGroup(acc,
             createAddressGroup(acc.store, "", Nil, Nil, Nil, peer.NodeSelector))
    ELSE AppendGroup(acc,
             createAddressGroup(acc.store, npNamespace, peer.PodSelector,
                 peer.NamespaceSelector, peer.ExternalEntitySelector, Nil))

\* One iteration of the loop over the peers.
PeerStep(acc, peer, npNamespace) ==
    IF peer.IPBlock # Nil
    THEN LET b == toAntreaIPBlockForCRD(peer.IPBlock)
         IN  IF b.err THEN acc
             ELSE [acc EXCEPT !.ipBlocks = Append(@, b.block)]
    ELSE IF peer.Group # ""
    THEN LET g == processRefGroupOrClusterGroup(peer.Group, npNamespace)
         IN  [acc EXCEPT !.addressGroups =
                            IF g.key # EmptyString THEN Append(@, g.key) ELSE @,
                         !.ipBlocks = @ \o g.ipBlocks]
    ELSE IF peer.FQDN # ""
    THEN [acc EXCEPT !.fqdns = Append(@, peer.FQDN)]
    ELSE IF peer.ServiceAccount # Nil
    THEN AppendGroup(acc,
             createAddressGroup(acc.store, peer.ServiceAccount.Namespace,
                 serviceAccountNameToPodSelector(peer.ServiceAccount.Name),
                 Nil, Nil, Nil))
    ELSE IF peer.NodeSelector # Nil
    THEN AppendGroup(acc,
             createAddressGroup(acc.store, "", Nil, Nil, Nil, peer.NodeSelector))
    ELSE AppendGroup(acc,
             createAddressGroup(acc.store, npNamespace, peer.PodSelector,
                 peer.NamespaceSelector, peer.ExternalEntitySelector, Nil))

RECURSIVE PeerLoop(_, _, _, _)
\* "for _, peer := range peers", from peer i on.
PeerLoop(peers, npNamespace, i, acc) ==
    IF i > Len(peers) THEN acc
    ELSE PeerLoop(peers, npNamespace, i + 1, PeerStep(acc, peers[i], npNamespace))

\* What a conversion hands back: the peer, the store and the normalizer's
\* operations.
PeerOf(acc) ==
    [peer |-> [AddressGroups |-> acc.addressGroups,
               IPBlocks |-> acc.ipBlocks,
               FQDNs |-> acc.fqdns],
     store |-> acc.store,
     ops |-> acc.ops]

\* The empty list taken for match-all whatever the direction and the ports.
EmptyPeersAlwaysMatchAll(dir, namedPortExists, store, sentinel) ==
    [peer |-> sentinel, store |-> store, ops |-> <<>>, sentinel |-> sentinel]

\* The empty list with the test of namedPortExists left out.
EmptyPeersByDirection(dir, namedPortExists, store, sentinel) ==
    IF dir = DirectionIn
    THEN [peer |-> sentinel, store |-> store, ops |-> <<>>, sentinel |-> sentinel]
    ELSE LET g == createAddressGroup(store, "", matchAllPodsPeerCrd.PodSelector,
                      matchAllPodsPeerCrd.NamespaceSelector, Nil, Nil)
         IN  [peer |-> [sentinel EXCEPT !.AddressGroups = <<g.key>>],
              store |-> g.store, ops |-> g.ops, sentinel |-> sentinel]

\* "podsPeer" taken for matchAllPeer itself and not for a copy of it: the
\* append is made to the sentinel.
EmptyPeersAliased(dir, namedPortExists, store, sentinel) ==
    IF dir = DirectionIn \/ ~namedPortExists
    THEN [peer |-> sentinel, store |-> store, ops |-> <<>>, sentinel |-> sentinel]
    ELSE LET g == createAddressGroup(store, "", matchAllPodsPeerCrd.PodSelector,
                      matchAllPodsPeerCrd.NamespaceSelector, Nil, Nil)
             podsPeer == [sentinel EXCEPT !.AddressGroups = <<g.key>>]
         IN  [peer |-> podsPeer, store |-> g.store, ops |-> g.ops,
              sentinel |-> podsPeer]

\* "if len(peers) == 0 { ... }": &matchAllPeer, or a copy of it with the
\* all-Pods AddressGroup appended to the (nil) addressGroups.
EmptyPeers(dir, namedPortExists, store, sentinel) ==
    IF dir = DirectionIn \/ ~namedPortExists
    THEN [peer |-> sentinel, store |-> store, ops |-> <<>>, sentinel |-> sentinel]
    ELSE LET g == createAddressGroup(store, "", matchAllPodsPeerCrd.PodSelector,
                      matchAllPodsPeerCrd.NamespaceSelector, Nil, Nil)
         IN  [peer |-> [sentinel EXCEPT !.AddressGroups = <<g.key>>],
              store |-> g.store, ops |-> g.ops, sentinel |-> sentinel]

toAntreaPeerForCRD(peers, npNamespace, dir, namedPortExists, store, sentinel) ==
    IF Len(peers) = 0
    THEN EmptyPeers(dir, namedPortExists, store, sentinel)
    ELSE LET r == PeerOf(PeerLoop(peers, npNamespace, 1, NoAcc(store)))
         IN  [peer |-> r.peer, store |-> r.store, ops |-> r.ops,
              sentinel |-> sentinel]

\* One iteration of the loop of toNamespacedPeerForCRD.
NamespacedPeerStep(acc, peer, namespace) ==
    AppendGroup(acc,
        createAddressGroup(acc.store, namespace, peer.PodSelector, Nil,
            peer.ExternalEntitySelector, Nil))

RECURSIVE NamespacedPeerLoop(_, _, _, _)
NamespacedPeerLoop(peers, namespace, i, acc) ==
    IF i > Len(peers) THEN acc
    ELSE NamespacedPeerLoop(peers, namespace, i + 1,
             NamespacedPeerStep(acc, peers[i], namespace))

\* Only AddressGroups is set in the peer it returns.
toNamespacedPeerForCRD(peers, namespace, store) ==
    LET acc == NamespacedPeerLoop(peers, namespace, 1, NoAcc(store))
    IN  [peer |-> [AddressGroups |-> acc.addressGroups, IPBlocks |-> <<>>, FQDNs |-> <<>>],
         store |-> acc.store,
         ops |-> acc.ops]

NoPeerOut == [fn |-> "none"]

\* A call of toAntreaPeerForCRD on the rule's peers.
ToAntreaPeerForCRD(npNamespace, dir, namedPortExists) ==
    /\ LET r == toAntreaPeerForCRD(rulePeers, npNamespace, dir, namedPortExists,
                    addressGroupStore, matchAllPeer)
       IN  /\ addressGroupStore' = r.store
           /\ peerOut' = [fn |-> "toAntreaPeerForCRD", namespace |-> npNamespace,
                          dir |-> dir, namedPortExists |-> namedPortExists,
                          before |-> addressGroupStore,
                          peer |-> r.peer, ops |-> r.ops]
           /\ matchAllPeer' = r.sentinel
    /\ UNCHANGED <<rulePeers, groupVars, tierVars, syncVars>>
    /\ UNCHANGED <<svcVars, statusVars>>

\* A call of toNamespacedPeerForCRD on the rule's peers.
ToNamespacedPeerForCRD(namespace) ==
    /\ LET r == toNamespacedPeerForCRD(rulePeers, namespace, addressGroupStore)
       IN  /\ addressGroupStore' = r.store
           /\ peerOut' = [fn |-> "toNamespacedPeerForCRD", namespace |-> namespace,
                          dir |-> DirectionIn, namedPortExists |-> FALSE,
                          before |-> addressGroupStore,
                          peer |-> r.peer, ops |-> r.ops]
    /\ UNCHANGED <<rulePeers, matchAllPeer, groupVars, tierVars, syncVars>>
    /\ UNCHANGED <<svcVars, statusVars>>

(***************************************************************************)
(* Tiers.  A Tier name is a sequence of letters.                            *)
(***************************************************************************)
MaxTiers == 2

DefaultTierPriority == 250

\* unicode.ToLower on the letters the names below are written in.
ToLowerChar(c) ==
    CASE c = "E" -> "e"
      [] c = "M" -> "m"
      [] c = "B" -> "b"
      [] c = "A" -> "a"
      [] c = "D" -> "d"
      [] OTHER -> c

\* strings.ToLower
ToLower(s) == [i \in 1..Len(s) |-> ToLowerChar(s[i])]

\* staticTierSet: the names of the old static tiers, as they were spelled
\* ("Em" and "Ba" stand for names such as Emergency and Baseline).
staticTierSet == {<<"E", "m">>, <<"B", "a">>}

\* The tier names a policy may carry.
TierInputs ==
    {EmptyString,
     <<"E", "m">>, <<"e", "m">>, <<"E", "M">>, <<"e", "M">>,
     <<"B", "a">>, <<"b", "a">>,
     <<"d", "b">>}

\* The names Tiers are created under.
TierNames == {<<"e", "m">>, <<"E", "M">>, <<"b", "a">>, <<"d", "b">>}

TierPriorities == {10, DefaultTierPriority}

\* n.tierLister.Get(name): (tier, err), err when no Tier has the name.
TierListerGet(store, name) ==
    IF name \in DOMAIN store
    THEN [tier |-> [Spec |-> [Priority |-> store[name]]], err |-> FALSE]
    ELSE [tier |-> Nil, err |-> TRUE]

\* The name looked up with the conversion of static tier names left out.
TierLookupNameAsGiven(tier) == tier

\* "if staticTierSet.Has(tier) { tier = strings.ToLower(tier) }"
TierLookupName(tier) == IF tier \in staticTierSet THEN ToLower(tier) ELSE tier

\* getTierPriority returning the zero priority when the Tier is not found.
getTierPriorityZeroOnMiss(tier, store) ==
    IF tier = EmptyString
    THEN [priority |-> DefaultTierPriority, lookups |-> <<>>]
    ELSE LET name == TierLookupName(tier)
             t == TierListerGet(store, name)
         IN  [priority |-> IF t.err THEN 0 ELSE t.tier.Spec.Priority,
              lookups |-> <<name>>]

\* getTierPriority: the priority, and the names it asked the lister for.
getTierPriority(tier, store) ==
    IF tier = EmptyString
    THEN [priority |-> DefaultTierPriority, lookups |-> <<>>]
    ELSE LET name == TierLookupName(tier)
             t == TierListerGet(store, name)
         IN  [priority |-> IF t.err THEN DefaultTierPriority ELSE t.tier.Spec.Priority,
              lookups |-> <<name>>]

NoTierOut == [tier |-> EmptyString, called |-> FALSE]

\* A Tier is created.
CreateTier(name, priority) ==
    /\ name \notin DOMAIN tierStore
    /\ Cardinality(DOMAIN tierStore) < MaxTiers
    /\ tierStore' = [n \in DOMAIN tierStore \cup {name} |->
                        IF n = name THEN priority ELSE tierStore[n]]
    /\ UNCHANGED <<tierOut, groupVars, addressGroupStore, peerVars, syncVars>>
    /\ UNCHANGED <<svcVars, statusVars>>

\* A Tier is deleted.
DeleteTier(name) ==
    /\ name \in DOMAIN tierStore
    /\ tierStore' = [n \in DOMAIN tierStore \ {name} |-> tierStore[n]]
    /\ UNCHANGED <<tierOut, groupVars, addressGroupStore, peerVars, syncVars>>
    /\ UNCHANGED <<svcVars, statusVars>>

\* A call of getTierPriority.
GetTierPriority(tier) ==
    /\ LET r == getTierPriority(tier, tierStore)
       IN  tierOut' = [tier |-> tier, called |-> TRUE, store |-> tierStore,
                       priority |-> r.priority, lookups |-> r.lookups]
    /\ UNCHANGED <<tierStore, groupVars, addressGroupStore, peerVars, syncVars>>
    /\ UNCHANGED <<svcVars, statusVars>>

(***************************************************************************)
(* syncInternalGroup.                                                       *)
(***************************************************************************)

\* The internal Groups that come and go.
InternalGroups ==
    {Group("u1", "", "cg", FALSE), Group("u2", "", "cg", FALSE),
     Group("u3", "ns", "g", FALSE), Group("u5", "ns", "h", FALSE)}

InternalGroupKey(g) == GroupKeyFunc(g).key

\* The keys the work queue hands to syncInternalGroup.
SyncKeys == {InternalGroupKey(g) : g \in InternalGroups}

internalGroupType == "internalGroup"

\* One call made by syncInternalGroup.
Called(fn, arg) == [fn |-> fn, arg |-> arg]

\* n.internalGroupStore.Get(key)
InternalGroupGet(store, key) ==
    IF \E g \in store : InternalGroupKey(g) = key
    THEN [obj |-> CHOOSE g \in store : InternalGroupKey(g) = key, found |-> TRUE]
    ELSE [obj |-> Nil, found |-> FALSE]

\* The body with the namespace test inverted.
SyncBodySwapped(key, store, delegateFails) ==
    LET got == InternalGroupGet(store, key)
        get == Called("internalGroupStore.Get", key)
    IN  IF ~got.found
        THEN [calls |-> <<get, Called("groupingInterface.DeleteGroup", <<internalGroupType, key>>)>>,
              found |-> FALSE, err |-> FALSE]
        ELSE IF got.obj.SourceReference.Namespace = ""
        THEN [calls |-> <<get, Called("syncInternalNamespacedGroup", got.obj)>>,
              found |-> TRUE, err |-> delegateFails]
        ELSE [calls |-> <<get, Called("syncInternalClusterGroup", got.obj)>>,
              found |-> TRUE, err |-> delegateFails]

\* The body of syncInternalGroup between its defers and its return; a
\* delegate returns nil or an error.
SyncBody(key, store, delegateFails) ==
    LET got == InternalGroupGet(store, key)
        get == Called("internalGroupStore.Get", key)
    IN  IF ~got.found
        THEN [calls |-> <<get, Called("groupingInterface.DeleteGroup", <<internalGroupType, key>>)>>,
              found |-> FALSE, err |-> FALSE]
        ELSE IF got.obj.SourceReference.Namespace # ""
        THEN [calls |-> <<get, Called("syncInternalNamespacedGroup", got.obj)>>,
              found |-> TRUE, err |-> delegateFails]
        ELSE [calls |-> <<get, Called("syncInternalClusterGroup", got.obj)>>,
              found |-> TRUE, err |-> delegateFails]

\* The three notifications in the order the defer statements are written.
DeferredInSourceOrder(key) ==
    <<Called("triggerANPUpdates", key),
      Called("triggerCNPUpdates", key),
      Called("triggerParentGroupSync", key)>>

\* The three defers, run last in first out when the function returns.
Deferred(key) ==
    <<Called("triggerParentGroupSync", key),
      Called("triggerCNPUpdates", key),
      Called("triggerANPUpdates", key)>>

\* syncInternalGroup with the notifications as plain calls after the lookup:
\* the not-found return and a failing delegate skip them.
syncInternalGroupNoDefer(key, store, delegateFails) ==
    LET b == SyncBody(key, store, delegateFails)
    IN  [calls |-> IF b.found /\ ~b.err THEN b.calls \o Deferred(key) ELSE b.calls,
         err |-> b.err]

syncInternalGroup(key, store, delegateFails) ==
    LET b == SyncBody(key, store, delegateFails)
    IN  [calls |-> b.calls \o Deferred(key), err |-> b.err]

NoSyncOut == [key |-> EmptyString, called |-> FALSE]

\* An internal Group is created: it enters the store and the grouping
\* interface.
AddInternalGroup(g) ==
    /\ ~InternalGroupGet(internalGroupStore, InternalGroupKey(g)).found
    /\ internalGroupStore' = internalGroupStore \cup {g}
    /\ groupingGroups' = groupingGroups \cup {InternalGroupKey(g)}
    /\ UNCHANGED <<syncOut, groupVars, addressGroupStore, peerVars, tierVars>>
    /\ UNCHANGED <<svcVars, statusVars>>

\* An internal Group is deleted from the store; its key is synced later.
DeleteInternalGroup(g) ==
    /\ g \in internalGroupStore
    /\ internalGroupStore' = internalGroupStore \ {g}
    /\ UNCHANGED <<groupingGroups, syncOut, groupVars, addressGroupStore, peerVars, tierVars>>
    /\ UNCHANGED <<svcVars, statusVars>>

\* A worker runs syncInternalGroup(key).
SyncInternalGroup(key, delegateFails) ==
    /\ LET r == syncInternalGroup(key, internalGroupStore, delegateFails)
           deleted == \E i \in 1..Len(r.calls) :
                          r.calls[i].fn = "groupingInterface.DeleteGroup"
       IN  /\ syncOut' = [key |-> key, called |-> TRUE, store |-> internalGroupStore,
                          delegateFails |-> delegateFails,
                          calls |-> r.calls, err |-> r.err]
           /\ groupingGroups' = IF deleted THEN groupingGroups \ {key} ELSE groupingGroups
    /\ UNCHANGED <<internalGroupStore, groupVars, addressGroupStore, peerVars, tierVars>>
    /\ UNCHANGED <<svcVars, statusVars>>

(***************************************************************************)
(* toAntreaServicesForCRD.                                                  *)
(***************************************************************************)
MaxPorts == 2

MaxProtocols == 2

\* A non-nil pointer to v.
Ptr(v) == [ptr |-> v]

\* intstr.IntOrString
FromInt(n) == [Type |-> "Int", IntVal |-> n, StrVal |-> ""]

FromString(str) == [Type |-> "String", IntVal |-> 0, StrVal |-> str]

\* v1alpha1.NetworkPolicyPort values: a number, a name, no port, a range.
PortValues ==
    {[Protocol |-> Nil, Port |-> Ptr(FromInt(80)), EndPort |-> Nil],
     [Protocol |-> Ptr("TCP"), Port |-> Ptr(FromString("http")), EndPort |-> Nil],
     [Protocol |-> Ptr("UDP"), Port |-> Nil, EndPort |-> Nil],
     [Protocol |-> Ptr("TCP"), Port |-> Ptr(FromInt(8080)), EndPort |-> Ptr(8090)]}

ICMPValue == [ICMPType |-> Ptr(8), ICMPCode |-> Ptr(0)]

IGMPValue == [IGMPType |-> Ptr(17), GroupAddress |-> "224.0.0.1"]

\* v1alpha1.NetworkPolicyProtocol values: either field, both, neither.
ProtocolValues ==
    {[ICMP |-> Ptr(ICMPValue), IGMP |-> Nil],
     [ICMP |-> Nil, IGMP |-> Ptr(IGMPValue)],
     [ICMP |-> Ptr(ICMPValue), IGMP |-> Ptr(IGMPValue)],
     [ICMP |-> Nil, IGMP |-> Nil]}

PortLists == SeqsUpTo(PortValues, MaxPorts)

ProtocolLists == SeqsUpTo(ProtocolValues, MaxProtocols)

\* controlplane.Service with no field set.
NoService ==
    [Protocol |-> Nil, Port |-> Nil, EndPort |-> Nil, ICMPType |-> Nil,
     ICMPCode |-> Nil, IGMPType |-> Nil, GroupAddress |-> ""]

\* toAntreaProtocol: TCP when the protocol is not set.
toAntreaProtocol(npProtocol) == IF npProtocol = Nil THEN Ptr("TCP") ELSE npProtocol

\* A port counted as named as soon as it is set.
NamedPortAnySet(npPort) == npPort.Port # Nil

\* "npPort.Port != nil && npPort.Port.Type == intstr.String"
NamedPort(npPort) == npPort.Port # Nil /\ npPort.Port.ptr.Type = "String"

\* The Service appended for a port.
PortService(npPort) ==
    [NoService EXCEPT !.Protocol = toAntreaProtocol(npPort.Protocol),
                      !.Port = npPort.Port,
                      !.EndPort = npPort.EndPort]

ICMPService(icmp) ==
    [NoService EXCEPT !.Protocol = Ptr("ICMP"),
                      !.ICMPType = icmp.ICMPType,
                      !.ICMPCode = icmp.ICMPCode]

IGMPService(igmp) ==
    [NoService EXCEPT !.Protocol = Ptr("IGMP"),
                      !.IGMPType = igmp.IGMPType,
                      !.GroupAddress = igmp.GroupAddress]

\* The two tests as "if ... else if ...": IGMP dropped when ICMP is set.
ProtocolServicesEitherOr(npProtocol) ==
    IF npProtocol.ICMP # Nil THEN <<ICMPService(npProtocol.ICMP.ptr)>>
    ELSE IF npProtocol.IGMP # Nil THEN <<IGMPService(npProtocol.IGMP.ptr)>>
    ELSE <<>>

\* The Services appended for a protocol: one for ICMP when it is set, then
\* one for IGMP when it is set.
ProtocolServices(npProtocol) ==
    (IF npProtocol.ICMP # Nil THEN <<ICMPService(npProtocol.ICMP.ptr)>> ELSE <<>>)
      \o (IF npProtocol.IGMP # Nil THEN <<IGMPService(npProtocol.IGMP.ptr)>> ELSE <<>>)

RECURSIVE PortsLoop(_, _, _)
\* "for _, npPort := range npPorts", from port i on.
PortsLoop(ports, i, acc) ==
    IF i > Len(ports) THEN acc
    ELSE PortsLoop(ports, i + 1,
             [antreaServices |-> Append(acc.antreaServices, PortService(ports[i])),
              namedPortExists |-> IF NamedPort(ports[i]) THEN TRUE
                                  ELSE acc.namedPortExists])

RECURSIVE ProtocolsLoop(_, _, _)
\* "for _, npProtocol := range npProtocols", from protocol i on.
ProtocolsLoop(protocols, i, acc) ==
    IF i > Len(protocols) THEN acc
    ELSE ProtocolsLoop(protocols, i + 1,
             [acc EXCEPT !.antreaServices = @ \o ProtocolServices(protocols[i])])

toAntreaServicesForCRD(ports, protocols) ==
    ProtocolsLoop(protocols, 1,
        PortsLoop(ports, 1, [antreaServices |-> <<>>, namedPortExists |-> FALSE]))

NoSvcOut == [called |-> FALSE]

\* A call of toAntreaServicesForCRD on the rule's ports and protocols.
ToAntreaServicesForCRD ==
    /\ LET r == toAntreaServicesForCRD(npPorts, npProtocols)
       IN  svcOut' = [called |-> TRUE, services |-> r.antreaServices,
                      namedPortExists |-> r.namedPortExists]
    /\ UNCHANGED <<npPorts, npProtocols, statusVars>>
    /\ UNCHANGED <<groupVars, addressGroupStore, peerVars, tierVars, syncVars>>

(***************************************************************************)
(* NetworkPolicyStatusEqual.                                                *)
(***************************************************************************)
MaxConds == 2

\* v1alpha1.NetworkPolicyCondition; LastTransitionTime counts days.
Condition(type, status, time, reason, message) ==
    [Type |-> type, Status |-> status, LastTransitionTime |-> time,
     Reason |-> reason, Message |-> message]

\* One condition and the conditions differing from it in one field.
ConditionValues ==
    {Condition("Realizable", "True", 1, "", ""),
     Condition("Realizable", "True", 2, "", ""),
     Condition("Realizable", "False", 1, "", ""),
     Condition("Other", "True", 1, "", ""),
     Condition("Realizable", "True", 1, "reason", ""),
     Condition("Realizable", "True", 1, "", "message")}

\* v1alpha1.NetworkPolicyStatus. A nil and an empty Conditions slice are one
\* value here, as they are to a semantic DeepEqual.
Status(phase, generation, current, desired, conditions) ==
    [Phase |-> phase, ObservedGeneration |-> generation,
     CurrentNodesRealized |-> current, DesiredNodesRealized |-> desired,
     Conditions |-> conditions]

NoStatus == Status("", 0, 0, 0, <<>>)

StatusValues ==
    {Status(f[1], f[2], f[3], f[4], conds) :
        f \in {<<"Realized", 1, 2, 2>>, <<"Realizing", 1, 2, 2>>,
               <<"Realized", 2, 2, 2>>, <<"Realized", 1, 1, 2>>,
               <<"Realized", 1, 2, 3>>},
        conds \in SeqsUpTo(ConditionValues, MaxConds)}

\* metav1.Date(2018, 1, 1, 0, 0, 0, 0, time.UTC)
Date2018 == 0

\* Conditions compared field by field, the time included.
ConditionEqualExact(a, b) == a = b

\* The equality function registered for NetworkPolicyCondition.
ConditionEqual(a, b) ==
    LET a1 == [a EXCEPT !.LastTransitionTime = Date2018]
        b1 == [b EXCEPT !.LastTransitionTime = Date2018]
    IN  a1 = b1

\* DeepEqual of two NetworkPolicyStatus: field by field, the slice by length
\* and then element by element with the registered function.
DeepEqual(a, b) ==
    /\ a.Phase = b.Phase
    /\ a.ObservedGeneration = b.ObservedGeneration
    /\ a.CurrentNodesRealized = b.CurrentNodesRealized
    /\ a.DesiredNodesRealized = b.DesiredNodesRealized
    /\ Len(a.Conditions) = Len(b.Conditions)
    /\ \A i \in 1..Len(a.Conditions) : ConditionEqual(a.Conditions[i], b.Conditions[i])

NetworkPolicyStatusEqual(old, new) == DeepEqual(old, new)

NoStatusOut == [called |-> FALSE]

\* A call of NetworkPolicyStatusEqual on the two statuses.
StatusEqualCall ==
    /\ statusOut' = [called |-> TRUE,
                     equal |-> NetworkPolicyStatusEqual(oldStatus, newStatus)]
    /\ UNCHANGED <<oldStatus, newStatus, svcVars>>
    /\ UNCHANGED <<groupVars, addressGroupStore, peerVars, tierVars, syncVars>>

(***************************************************************************)
(* Specifications.                                                          *)
(***************************************************************************)
GroupQuiet ==
    /\ appliedToGroupStore = {}
    /\ addressGroupStore = {}
    /\ appliedToGroupQueue = {}
    /\ call = [c \in Calls |-> IdleCall]

PeerQuiet ==
    /\ matchAllPeer = MatchAllPeerValue
    /\ peerOut = NoPeerOut

TierQuiet ==
    /\ tierStore = <<>>
    /\ tierOut = NoTierOut

SyncQuiet ==
    /\ internalGroupStore = {}
    /\ groupingGroups = {}
    /\ syncOut = NoSyncOut

SvcQuiet == svcOut = NoSvcOut

StatusQuiet == statusOut = NoStatusOut

\* Nothing to convert or compare.
NoInputs ==
    /\ rulePeers = <<>>
    /\ npPorts = <<>> /\ npProtocols = <<>>
    /\ oldStatus = NoStatus /\ newStatus = NoStatus

Quiet == GroupQuiet /\ PeerQuiet /\ TierQuiet /\ SyncQuiet /\ SvcQuiet /\ StatusQuiet

\* The controller as constructed: empty stores, no call made.
Init == Quiet /\ NoInputs

\* The create* functions called one after the other.
GroupNext ==
    \/ \E c \in Calls, fn \in CreateFns : \E arg \in ArgsOf(fn) : BeginAlone(c, fn, arg)
    \/ \E c \in Calls : Get(c)
    \/ \E c \in Calls : Create(c)
    \/ \E c \in Calls : Enqueue(c)
    \/ DequeueAppliedToGroup

\* The create* functions called by concurrent goroutines.
GroupConcNext ==
    \/ \E c \in Calls, fn \in CreateFns : \E arg \in ArgsOf(fn) : Begin(c, fn, arg)
    \/ \E c \in Calls : Get(c)
    \/ \E c \in Calls : Create(c)
    \/ \E c \in Calls : Enqueue(c)
    \/ DequeueAppliedToGroup

SpecGroup == Init /\ [][GroupNext]_vars

SpecGroupConc == Init /\ [][GroupConcNext]_vars

\* A rule's peer list, converted any number of times.
PeerInit ==
    /\ Quiet
    /\ rulePeers \in PeerLists
    /\ npPorts = <<>> /\ npProtocols = <<>>
    /\ oldStatus = NoStatus /\ newStatus = NoStatus

PeerNext ==
    \/ \E ns \in PolicyNamespaces, dir \in Directions, named \in BOOLEAN :
           ToAntreaPeerForCRD(ns, dir, named)
    \/ \E ns \in PolicyNamespaces \ {""} : ToNamespacedPeerForCRD(ns)

SpecPeer == PeerInit /\ [][PeerNext]_vars

\* A rule's ports and protocols, and its conversion.
SvcInit ==
    /\ Quiet
    /\ rulePeers = <<>>
    /\ npPorts \in PortLists /\ npProtocols \in ProtocolLists
    /\ oldStatus = NoStatus /\ newStatus = NoStatus

SvcNext == ToAntreaServicesForCRD

SpecSvc == SvcInit /\ [][SvcNext]_vars

\* Two statuses, and their comparison.
StatusInit ==
    /\ Quiet
    /\ rulePeers = <<>>
    /\ npPorts = <<>> /\ npProtocols = <<>>
    /\ oldStatus \in StatusValues /\ newStatus \in StatusValues

StatusNext == StatusEqualCall

SpecStatus == StatusInit /\ [][StatusNext]_vars

\* Tiers created and deleted, and their priorities resolved.
TierNext ==
    \/ \E name \in TierNames, priority \in TierPriorities : CreateTier(name, priority)
    \/ \E name \in TierNames : DeleteTier(name)
    \/ \E tier \in TierInputs : GetTierPriority(tier)

SpecTier == Init /\ [][TierNext]_vars

\* Internal Groups created and deleted, and their keys synced.
SyncNext ==
    \/ \E g \in InternalGroups : AddInternalGroup(g)
    \/ \E g \in InternalGroups : DeleteInternalGroup(g)
    \/ \E key \in SyncKeys, delegateFails \in BOOLEAN : SyncInternalGroup(key, delegateFails)

SpecSync == Init /\ [][SyncNext]_vars

(***************************************************************************)
(* Properties of the get-or-create functions.                               *)
(***************************************************************************)
Begun(c) == call[c].pc # "idle"

Done(c) == call[c].pc = "done"

HasOp(c, op) == \E i \in 1..Len(call[c].trace) : call[c].trace[i].op = op

\* Two calls on the same store whose inputs normalize to the same key.
SameTarget(c, d) ==
    /\ Begun(c) /\ Begun(d)
    /\ StoreOf(call[c].fn) = StoreOf(call[d].fn)
    /\ ~KeyOf(call[c].fn, call[c].arg).err
    /\ ~KeyOf(call[d].fn, call[d].arg).err
    /\ KeyOf(call[c].fn, call[c].arg).key = KeyOf(call[d].fn, call[d].arg).key

\* C1: when the calls do not overlap, two calls whose inputs normalize to the
\* same key return that same key, the later one only does the store Get (no
\* Create, no enqueue), and the store holds exactly one object of the key.
C1_SequentialIdempotence ==
    /\ \A c, d \in Calls :
         (c < d /\ Done(c) /\ Done(d) /\ SameTarget(c, d)) =>
            /\ call[c].ret = call[d].ret
            /\ call[d].ret = KeyOf(call[d].fn, call[d].arg).key
            /\ call[d].trace = <<Op("Get", call[d].ret)>>
    /\ \A c \in Calls :
         (Done(c) /\ ~KeyOf(call[c].fn, call[c].arg).err) =>
            Cardinality({o \in TheStore(call[c].fn) : o.Name = call[c].ret}) = 1

\* Two finished calls for one key from different internal Groups, the first
\* of which created the object.
C1_Witness ==
    \E c, d \in Calls :
        /\ c < d /\ Done(c) /\ Done(d) /\ SameTarget(c, d)
        /\ call[c].arg # call[d].arg
        /\ HasOp(c, "Create")
        /\ ~HasOp(d, "Create")

\* C2: under concurrent callers, store Create is invoked at most once per key
\* and the key is enqueued at most once.
C2_AtMostOneCreatePerKey ==
    \A c, d \in Calls :
        (c # d /\ SameTarget(c, d)) =>
            /\ ~(HasOp(c, "Create") /\ HasOp(d, "Create"))
            /\ ~(HasOp(c, "Enqueue") /\ HasOp(d, "Enqueue"))

\* C7 as stated: every call that did a store Create also enqueued the same
\* key before it returned, whichever of the three functions it is.
C7_EveryCreateEnqueued ==
    \A c \in Calls :
        (Done(c) /\ HasOp(c, "Create")) =>
            /\ call[c].trace = <<Op("Get", call[c].ret), Op("Create", call[c].ret),
                                 Op("Enqueue", call[c].ret)>>

\* C7: a call of createAppliedToGroupForInternalGroup or
\* createAppliedToGroupForService that did a store Create also enqueued the
\* same key before returning it; createAddressGroupForInternalGroup returns
\* the key right after its Create, with no enqueue.
C7_AppliedToCreateEnqueued ==
    \A c \in Calls :
        (Done(c) /\ HasOp(c, "Create")) =>
            /\ call[c].ret = call[c].key
            /\ StoreHas(TheStore(call[c].fn), call[c].ret)
            /\ call[c].trace =
                 IF call[c].fn \in {FnAppliedToInternal, FnAppliedToService}
                 THEN <<Op("Get", call[c].ret), Op("Create", call[c].ret),
                        Op("Enqueue", call[c].ret)>>
                 ELSE <<Op("Get", call[c].ret), Op("Create", call[c].ret)>>

\* One finished creating call of each of the three functions.
C7_Witness ==
    \A fn \in CreateFns :
        \E c \in Calls : Done(c) /\ call[c].fn = fn /\ HasOp(c, "Create")

(***************************************************************************)
(* Properties of syncInternalGroup.                                         *)
(***************************************************************************)
CountCalled(calls, fn, arg) ==
    Cardinality({i \in 1..Len(calls) : calls[i] = Called(fn, arg)})

Notifications == {"triggerANPUpdates", "triggerCNPUpdates", "triggerParentGroupSync"}

\* C3: every invocation of syncInternalGroup(key) calls each of
\* triggerANPUpdates(key), triggerCNPUpdates(key), triggerParentGroupSync(key)
\* exactly once, whether the group is missing or a delegate returned nil or
\* an error.
C3_NotificationsExactlyOnce ==
    syncOut.called =>
        /\ \A fn \in Notifications : CountCalled(syncOut.calls, fn, syncOut.key) = 1
        /\ \A i \in 1..Len(syncOut.calls) :
               syncOut.calls[i].fn \in Notifications => syncOut.calls[i].arg = syncOut.key

\* An invocation whose namespaced delegate returned an error.
C3_Witness ==
    /\ syncOut.called
    /\ syncOut.err
    /\ syncOut.calls[2].fn = "syncInternalNamespacedGroup"

(***************************************************************************)
(* Properties of the peer conversions.                                      *)
(***************************************************************************)
EmptyListCall ==
    /\ peerOut.fn = "toAntreaPeerForCRD"
    /\ rulePeers = <<>>

\* The key of the AddressGroup of all Pods in all Namespaces.
AllPodsKey == getNormalizedUID(NormalizedName("", Nil, Selector(<<>>), Nil, Nil))

AnyIPBlock == [CIDR |-> [IP |-> "0.0.0.0", PrefixLength |-> 0], Except |-> <<>>]

\* C4 as stated: empty list, egress, named port: AddressGroups is the one
\* all-Pods key and IPBlocks is empty.
C4_IPBlocksEmpty ==
    (EmptyListCall /\ peerOut.dir = DirectionOut /\ peerOut.namedPortExists) =>
        /\ peerOut.peer.AddressGroups = <<AllPodsKey>>
        /\ peerOut.peer.IPBlocks = <<>>

\* C4: empty list, egress, named port: AddressGroups is the one all-Pods key,
\* got or created by the normalizer, and IPBlocks still holds the match-all
\* block 0.0.0.0/0 of the sentinel the peer is copied from.
C4_AllPodsGroupAndMatchAllBlock ==
    (EmptyListCall /\ peerOut.dir = DirectionOut /\ peerOut.namedPortExists) =>
        /\ peerOut.peer.AddressGroups = <<AllPodsKey>>
        /\ StoreHas(addressGroupStore, AllPodsKey)
        /\ peerOut.ops # <<>> /\ peerOut.ops[1] = Op("Get", AllPodsKey)
        /\ peerOut.peer.IPBlocks = <<AnyIPBlock>>
        /\ peerOut.peer.FQDNs = <<>>

C4_Witness ==
    /\ EmptyListCall /\ peerOut.dir = DirectionOut /\ peerOut.namedPortExists
    /\ Len(peerOut.peer.AddressGroups) = 1

\* C5: empty list with direction ingress or without a named port: the result
\* is the match-all peer (no AddressGroups, the one IPBlock 0.0.0.0/0 with an
\* empty Except, no FQDNs) and the normalizer is not used: no Get, Create or
\* enqueue, and the AddressGroup store is as before.
C5_MatchAllSentinel ==
    (EmptyListCall /\ (peerOut.dir = DirectionIn \/ ~peerOut.namedPortExists)) =>
        /\ peerOut.peer = [AddressGroups |-> <<>>, IPBlocks |-> <<AnyIPBlock>>, FQDNs |-> <<>>]
        /\ peerOut.ops = <<>>
        /\ addressGroupStore = peerOut.before

\* An egress call without a named port, made after the all-Pods group exists.
C5_Witness ==
    /\ EmptyListCall /\ peerOut.dir = DirectionOut /\ ~peerOut.namedPortExists
    /\ StoreHas(addressGroupStore, AllPodsKey)

\* C6: the AddressGroups of a converted peer never holds the empty key.
C6_NoEmptyGroupKey ==
    peerOut.fn # "none" =>
        \A i \in 1..Len(peerOut.peer.AddressGroups) :
            peerOut.peer.AddressGroups[i] # EmptyString

\* An IPBlock peer whose CIDR does not parse.
BadCIDRPeer(p) == p.IPBlock # Nil /\ cidrStrToIPNet(p.IPBlock.CIDR).err

\* The rule's peers without those.
ParsablePeers == SelectSeq(rulePeers, LAMBDA p : ~BadCIDRPeer(p))

\* C8: for a non-empty list holding IPBlock peers with unparsable CIDRs, the
\* result is what the loop yields on the list with those peers removed: the
\* same AddressGroups, IPBlocks and FQDNs in the same order.
C8_BadCIDRIsPeerLocal ==
    (/\ peerOut.fn = "toAntreaPeerForCRD"
     /\ rulePeers # <<>>
     /\ \E i \in 1..Len(rulePeers) : BadCIDRPeer(rulePeers[i])) =>
        peerOut.peer =
            PeerOf(PeerLoop(ParsablePeers, peerOut.namespace, 1, NoAcc(peerOut.before))).peer

\* A list with an unparsable CIDR before a parsable one.
C8_Witness ==
    /\ peerOut.fn = "toAntreaPeerForCRD"
    /\ Len(rulePeers) = 2
    /\ BadCIDRPeer(rulePeers[1])
    /\ rulePeers[2].IPBlock # Nil /\ ~BadCIDRPeer(rulePeers[2])
    /\ Len(peerOut.peer.IPBlocks) = 1

(***************************************************************************)
(* Properties of getTierPriority.                                           *)
(***************************************************************************)

\* C9 as stated: a name that is a static tier name in any letter case gets
\* the priority of the lower-case form of that name.
C9_AnyLetterCase ==
    tierOut.called =>
        \A s \in staticTierSet :
            ToLower(tierOut.tier) = ToLower(s) =>
                tierOut.priority = getTierPriority(ToLower(s), tierOut.store).priority

\* C9: a name spelled exactly as in the static tier set gets the priority of
\* its lower-case form; any other non-empty name, a differently cased static
\* name included, is looked up as given.
C9_StaticSpellingOnly ==
    tierOut.called =>
        /\ tierOut.tier \in staticTierSet =>
              /\ tierOut.priority =
                     getTierPriority(ToLower(tierOut.tier), tierOut.store).priority
              /\ tierOut.lookups = <<ToLower(tierOut.tier)>>
        /\ (tierOut.tier \notin staticTierSet /\ tierOut.tier # EmptyString) =>
              tierOut.lookups = <<tierOut.tier>>

\* A static name resolved to the priority of the Tier of its lower-case name.
C9_Witness ==
    /\ tierOut.called
    /\ tierOut.tier \in staticTierSet
    /\ tierOut.tier \notin DOMAIN tierOut.store
    /\ tierOut.priority # DefaultTierPriority

\* C10: getTierPriority always returns a priority: the default one for the
\* empty name, without a lookup; the default one when its one lookup finds no
\* Tier; the priority of the Tier found otherwise.
C10_NeverFails ==
    tierOut.called =>
        /\ tierOut.priority \in TierPriorities
        /\ tierOut.tier = EmptyString =>
              tierOut.priority = DefaultTierPriority /\ tierOut.lookups = <<>>
        /\ tierOut.tier # EmptyString =>
              /\ Len(tierOut.lookups) = 1
              /\ tierOut.priority =
                     IF tierOut.lookups[1] \in DOMAIN tierOut.store
                     THEN tierOut.store[tierOut.lookups[1]]
                     ELSE DefaultTierPriority

\* A lookup that found no Tier while other Tiers exist.
C10_Witness ==
    /\ tierOut.called
    /\ tierOut.tier # EmptyString
    /\ tierOut.lookups[1] \notin DOMAIN tierOut.store
    /\ tierOut.store # <<>>
(***************************************************************************)
(* Service translation.                                                     *)
(***************************************************************************)
\* Some port descriptor gives its port as a name.
HasNamedPort ==
    \E i \in DOMAIN npPorts :
        /\ npPorts[i].Port # Nil
        /\ npPorts[i].Port.ptr.Type = "String"

\* C11: the named-port flag returned by toAntreaServicesForCRD is true
\* exactly when some port descriptor gives its port as a string name; it is
\* false when every port is a number or not set, and false for any list of
\* ICMP/IGMP descriptors given without ports.
C11_NamedPortFlag ==
    svcOut.called =>
        /\ svcOut.namedPortExists <=> HasNamedPort
        /\ (\A i \in DOMAIN npPorts :
               npPorts[i].Port = Nil \/ npPorts[i].Port.ptr.Type = "Int")
             => ~svcOut.namedPortExists
        /\ npPorts = <<>> => ~svcOut.namedPortExists

\* A named port next to a numeric one, protocols present: the flag is set.
C11_Witness ==
    /\ svcOut.called
    /\ svcOut.namedPortExists
    /\ \E i \in DOMAIN npPorts :
           npPorts[i].Port # Nil /\ npPorts[i].Port.ptr.Type = "Int"
    /\ npProtocols # <<>>

\* The entries of the output for the ports are the ports' Services, in order.
PortsFirst ==
    /\ Len(svcOut.services) >= Len(npPorts)
    /\ \A i \in DOMAIN npPorts :
           /\ svcOut.services[i].Protocol =
                  (IF npPorts[i].Protocol = Nil THEN Ptr("TCP") ELSE npPorts[i].Protocol)
           /\ svcOut.services[i].Port = npPorts[i].Port
           /\ svcOut.services[i].EndPort = npPorts[i].EndPort

\* The number of fields set in a protocol descriptor.
FieldsSet(npProtocol) ==
    (IF npProtocol.ICMP # Nil THEN 1 ELSE 0) + (IF npProtocol.IGMP # Nil THEN 1 ELSE 0)

RECURSIVE FieldsSetBefore(_)
\* The number of fields set in the first j protocol descriptors.
FieldsSetBefore(j) ==
    IF j = 0 THEN 0 ELSE FieldsSetBefore(j - 1) + FieldsSet(npProtocols[j])

\* Entry k of the output is the ICMP Service of protocol descriptor j.
IsICMPOf(k, j) ==
    /\ k \in DOMAIN svcOut.services
    /\ svcOut.services[k].Protocol = Ptr("ICMP")
    /\ svcOut.services[k].ICMPType = npProtocols[j].ICMP.ptr.ICMPType
    /\ svcOut.services[k].ICMPCode = npProtocols[j].ICMP.ptr.ICMPCode

\* Entry k of the output is the IGMP Service of protocol descriptor j.
IsIGMPOf(k, j) ==
    /\ k \in DOMAIN svcOut.services
    /\ svcOut.services[k].Protocol = Ptr("IGMP")
    /\ svcOut.services[k].IGMPType = npProtocols[j].IGMP.ptr.IGMPType
    /\ svcOut.services[k].GroupAddress = npProtocols[j].IGMP.ptr.GroupAddress

\* C12, as stated: the output has one entry per descriptor, |P| + |Q| in
\* all, entry i for port i and entry |P| + j for protocol descriptor j, with
\* protocol ICMP or IGMP accordingly.
C12_OnePerDescriptor ==
    svcOut.called =>
        /\ Len(svcOut.services) = Len(npPorts) + Len(npProtocols)
        /\ PortsFirst
        /\ \A j \in DOMAIN npProtocols :
               LET k == Len(npPorts) + j
               IN  svcOut.services[k].Protocol \in {Ptr("ICMP"), Ptr("IGMP")}

\* C12, amended: the output has one entry per port descriptor, in order and
\* first, and then one entry per field set in a protocol descriptor, in
\* order, ICMP before IGMP within a descriptor; nothing is dropped as a
\* duplicate. The length is |P| + |Q| when every protocol descriptor has
\* exactly one of its fields set.
C12_OnePerPortAndSetField ==
    svcOut.called =>
        /\ Len(svcOut.services) = Len(npPorts) + FieldsSetBefore(Len(npProtocols))
        /\ PortsFirst
        /\ \A j \in DOMAIN npProtocols :
               LET k == Len(npPorts) + FieldsSetBefore(j - 1)
               IN  /\ npProtocols[j].ICMP # Nil => IsICMPOf(k + 1, j)
                   /\ npProtocols[j].IGMP # Nil => IsIGMPOf(k + FieldsSet(npProtocols[j]), j)
        /\ (\A j \in DOMAIN npProtocols : FieldsSet(npProtocols[j]) = 1)
             => Len(svcOut.services) = Len(npPorts) + Len(npProtocols)

\* The same port twice, then a descriptor with both fields set.
C12_Witness ==
    /\ svcOut.called
    /\ Len(npPorts) = 2 /\ npPorts[1] = npPorts[2]
    /\ \E j \in DOMAIN npProtocols : FieldsSet(npProtocols[j]) = 2
    /\ Len(svcOut.services) > Len(npPorts) + Len(npProtocols)

(***************************************************************************)
(* Status comparison.                                                       *)
(***************************************************************************)
\* A status without the LastTransitionTime of its conditions.
WithoutTimes(status) ==
    [Phase |-> status.Phase,
     ObservedGeneration |-> status.ObservedGeneration,
     CurrentNodesRealized |-> status.CurrentNodesRealized,
     DesiredNodesRealized |-> status.DesiredNodesRealized,
     Conditions |-> [i \in DOMAIN status.Conditions |->
                        [Type |-> status.Conditions[i].Type,
                         Status |-> status.Conditions[i].Status,
                         Reason |-> status.Conditions[i].Reason,
                         Message |-> status.Conditions[i].Message]]]

\* C13: NetworkPolicyStatusEqual(old, new) is true exactly when the two
\* statuses agree on every field other than the LastTransitionTime of their
\* conditions: the number, order, type, status, reason and message of the
\* conditions all count.
C13_EqualButForTimes ==
    statusOut.called =>
        (statusOut.equal <=> WithoutTimes(oldStatus) = WithoutTimes(newStatus))

\* Two statuses that differ, and only in a LastTransitionTime, found equal.
C13_Witness ==
    /\ statusOut.called
    /\ statusOut.equal
    /\ oldStatus # newStatus
    /\ Len(oldStatus.Conditions) = 2

(***************************************************************************)
(* The branches of syncInternalGroup and the order of its notifications.    *)
(***************************************************************************)
MainCalls ==
    {"groupingInterface.DeleteGroup", "syncInternalNamespacedGroup",
     "syncInternalClusterGroup"}

\* The calls of the last sync that are a deletion or a delegate.
MainOf(calls) == SelectSeq(calls, LAMBDA c : c.fn \in MainCalls)

\* The groups of the store, as the last sync found it, named by its key.
Present == {g \in syncOut.store : GroupKeyFunc(g).key = syncOut.key}

\* C14: syncInternalGroup takes exactly one branch. Key not in the store:
\* DeleteGroup(internalGroupType, key), no delegate, nil returned. Group
\* present with a namespace: syncInternalNamespacedGroup only, its result
\* returned. Group present without a namespace: syncInternalClusterGroup
\* only, its result returned. DeleteGroup is not called for a present group.
C14_ExactlyOneBranch ==
    syncOut.called =>
        LET main == MainOf(syncOut.calls)
        IN  /\ Len(main) = 1
            /\ Present = {} =>
                   /\ main[1] = Called("groupingInterface.DeleteGroup",
                                       <<internalGroupType, syncOut.key>>)
                   /\ ~syncOut.err
            /\ \A g \in Present :
                   /\ main[1].arg = g
                   /\ main[1].fn = IF g.SourceReference.Namespace # ""
                                   THEN "syncInternalNamespacedGroup"
                                   ELSE "syncInternalClusterGroup"
                   /\ syncOut.err = syncOut.delegateFails

\* A namespaced group synced next to a cluster group, its delegate failing.
C14_Witness ==
    /\ syncOut.called
    /\ syncOut.err
    /\ \E g \in Present : g.SourceReference.Namespace # ""
    /\ \E g \in syncOut.store : g.SourceReference.Namespace = ""

\* C15: the three notifications run after the main branch has finished, in
\* the order triggerParentGroupSync, triggerCNPUpdates, triggerANPUpdates.
C15_NotificationsLastInOrder ==
    syncOut.called =>
        LET n == Len(syncOut.calls)
        IN  /\ n >= 4
            /\ syncOut.calls[n - 2] = Called("triggerParentGroupSync", syncOut.key)
            /\ syncOut.calls[n - 1] = Called("triggerCNPUpdates", syncOut.key)
            /\ syncOut.calls[n] = Called("triggerANPUpdates", syncOut.key)
            /\ \A i \in 1..(n - 3) : syncOut.calls[i].fn \notin Notifications
            /\ \E i \in 1..(n - 3) : syncOut.calls[i].fn \in MainCalls

\* A sync of a deleted group: the deletion, then the three notifications.
C15_Witness ==
    /\ syncOut.called
    /\ Present = {}
    /\ syncOut.store # {}
    /\ Len(syncOut.calls) = 5

(***************************************************************************)
(* Order, duplicates and Group references in toAntreaPeerForCRD; the        *)
(* namespace-scoped resolver; the match-all sentinel.                       *)
(***************************************************************************)
LoopCall ==
    /\ peerOut.fn = "toAntreaPeerForCRD"
    /\ rulePeers # <<>>

\* What a peer adds to the locals of the loop, taken alone.
Alone(p) == PeerStep(NoAcc(peerOut.before), p, peerOut.namespace)

RECURSIVE ConcatFrom(_, _)
\* What the peers from i on add to a local, one after the other.
ConcatFrom(field, i) ==
    IF i > Len(rulePeers) THEN <<>>
    ELSE Alone(rulePeers[i])[field] \o ConcatFrom(field, i + 1)

\* A peer converted by way of createAddressGroup.
SelectorPeer(p) == p.IPBlock = Nil /\ p.Group = "" /\ p.FQDN = ""

Occurrences(q, x) == Cardinality({i \in DOMAIN q : q[i] = x})

\* C16: for a non-empty list, AddressGroups, IPBlocks and FQDNs each list
\* what the peers contribute, in input order and with nothing dropped as a
\* duplicate: a selector peer given k times has its key k times in
\* AddressGroups, and the store holds exactly one Group of that key after
\* the call.
C16_NoDedupOrderKept ==
    LoopCall =>
        /\ peerOut.peer.AddressGroups = ConcatFrom("addressGroups", 1)
        /\ peerOut.peer.IPBlocks = ConcatFrom("ipBlocks", 1)
        /\ peerOut.peer.FQDNs = ConcatFrom("fqdns", 1)
        /\ \A i \in DOMAIN rulePeers :
               SelectorPeer(rulePeers[i]) =>
                   LET key == Alone(rulePeers[i]).addressGroups[1]
                   IN  /\ Occurrences(peerOut.peer.AddressGroups, key)
                              >= Occurrences(rulePeers, rulePeers[i])
                       /\ Cardinality({o \in addressGroupStore : o.Name = key}) = 1

\* C16 for the selector peers a key is derived for.
C16_NoDedupOrderKeptForDerivedKeys ==
    LoopCall =>
        /\ peerOut.peer.AddressGroups = ConcatFrom("addressGroups", 1)
        /\ peerOut.peer.IPBlocks = ConcatFrom("ipBlocks", 1)
        /\ peerOut.peer.FQDNs = ConcatFrom("fqdns", 1)
        /\ \A i \in DOMAIN rulePeers :
               LET key == Alone(rulePeers[i]).addressGroups[1]
               IN  (SelectorPeer(rulePeers[i]) /\ key # EmptyString) =>
                       /\ Occurrences(peerOut.peer.AddressGroups, key)
                              >= Occurrences(rulePeers, rulePeers[i])
                       /\ Cardinality({o \in addressGroupStore : o.Name = key}) = 1

\* A peer the namespace-scoped resolver is meant for.
CarriesSelector(p) == p.PodSelector # Nil \/ p.ExternalEntitySelector # Nil

\* C17: toNamespacedPeerForCRD asks for a group only for the peers carrying
\* a pod selector or an external-entity selector, with the namespace given
\* and no namespace selector, ServiceAccount or node selector; the peers of
\* the other variants get no AddressGroups entry, and only AddressGroups is
\* set in the output.
C17_OnlySelectorPeersResolved ==
    peerOut.fn = "toNamespacedPeerForCRD" =>
        LET resolved == SelectSeq(rulePeers, CarriesSelector)
        IN  /\ Len(peerOut.peer.AddressGroups) = Len(resolved)
            /\ \A i \in DOMAIN resolved :
                   peerOut.peer.AddressGroups[i] \in
                       {EmptyString,
                        getNormalizedUID(NormalizedName(peerOut.namespace,
                            resolved[i].PodSelector, Nil,
                            resolved[i].ExternalEntitySelector, Nil))}
            /\ peerOut.peer.IPBlocks = <<>>
            /\ peerOut.peer.FQDNs = <<>>

\* A Group peer the resolver returns no key for.
KeylessGroupPeer(p) ==
    /\ p.IPBlock = Nil
    /\ p.Group # ""
    /\ processRefGroupOrClusterGroup(p.Group, peerOut.namespace).key = EmptyString

RECURSIVE BlocksFrom(_)
\* The IPBlocks of the peers from i on: those the resolver returns for a
\* Group without a key, those of the loop for the others.
BlocksFrom(i) ==
    IF i > Len(rulePeers) THEN <<>>
    ELSE (IF KeylessGroupPeer(rulePeers[i])
          THEN processRefGroupOrClusterGroup(rulePeers[i].Group, peerOut.namespace).ipBlocks
          ELSE Alone(rulePeers[i]).ipBlocks) \o BlocksFrom(i + 1)

\* C18: a Group peer whose resolution yields the empty key adds nothing to
\* AddressGroups, every IPBlock the resolver returns for it is appended to
\* IPBlocks in its place, and the other peers are converted as they are
\* without it.
C18_KeylessGroupKeepsIPBlocks ==
    (LoopCall /\ \E i \in DOMAIN rulePeers : KeylessGroupPeer(rulePeers[i])) =>
        LET others == SelectSeq(rulePeers, LAMBDA p : ~KeylessGroupPeer(p))
            r == PeerLoop(others, peerOut.namespace, 1, NoAcc(peerOut.before))
        IN  /\ peerOut.peer.AddressGroups = r.addressGroups
            /\ peerOut.peer.FQDNs = r.fqdns
            /\ addressGroupStore = r.store
            /\ peerOut.peer.IPBlocks = BlocksFrom(1)

\* A Group without a key before a selector peer: its block and the key.
C18_Witness ==
    /\ LoopCall
    /\ Len(rulePeers) = 2
    /\ KeylessGroupPeer(rulePeers[1])
    /\ SelectorPeer(rulePeers[2])
    /\ Len(peerOut.peer.IPBlocks) = 1
    /\ Len(peerOut.peer.AddressGroups) = 1
    /\ peerOut.peer.AddressGroups[1] # EmptyString

\* C20: toAntreaPeerForCRD never modifies matchAllPeer: after any calls,
\* those for an empty list, egress and a named port included, it has no
\* AddressGroups and the one IPBlock 0.0.0.0/0, and a call for an empty list
\* and ingress returns that value.
C20_SentinelUnmodified ==
    LET matchAll == [AddressGroups |-> <<>>, IPBlocks |-> <<AnyIPBlock>>, FQDNs |-> <<>>]
    IN  /\ matchAllPeer = matchAll
        /\ (EmptyListCall /\ peerOut.dir = DirectionIn) => peerOut.peer = matchAll

\* An ingress call for the empty list made after an egress call with a
\* named port has created the all-Pods group.
C20_Witness ==
    /\ EmptyListCall
    /\ peerOut.dir = DirectionIn
    /\ StoreHas(addressGroupStore, AllPodsKey)

(***************************************************************************)
(* A failed key derivation.                                                 *)
(***************************************************************************)
InternalGroupFns == {FnAppliedToInternal, FnAddressInternal}

\* C19: when store.GroupKeyFunc returns an error,
\* createAppliedToGroupForInternalGroup and createAddressGroupForInternalGroup
\* return the empty key without a store Get, a store Create or an enqueue:
\* the call is over in its first step, which leaves appliedToGroupStore,
\* addressGroupStore and the queue as they were.
C19_FailedKeyLeavesState ==
    [][\A c \in Calls :
          (/\ call'[c].pc # "idle"
           /\ call'[c].fn \in InternalGroupFns
           /\ call'[c].arg.Malformed) =>
              /\ call'[c].pc = "done"
              /\ call'[c].ret = EmptyString
              /\ call'[c].trace = <<>>
              /\ call[c].pc = "idle" =>
                     /\ appliedToGroupStore' = appliedToGroupStore
                     /\ addressGroupStore' = addressGroupStore
                     /\ appliedToGroupQueue' = appliedToGroupQueue]_vars

\* A call whose key derivation failed, made after a call that created a
\* group.
C19_Witness ==
    \E c, d \in Calls :
        /\ d < c
        /\ Done(c)
        /\ call[c].fn \in InternalGroupFns
        /\ call[c].arg.Malformed
        /\ call[c].ret = EmptyString
        /\ Done(d) /\ HasOp(d, "Create")
        /\ appliedToGroupStore \cup addressGroupStore # {}

====
